---------------------------- MODULE Spec2Model ----------------------------
(***************************************************************************)
(* EnhancedExec (src/Commands.py): EnhancedAsyncProcess launches a build   *)
(* process, tails a results file on a worker thread and deletes the file   *)
(* on cleanup.  The module models                                          *)
(*   - the environment composition of __init__ (updated_environ), step by  *)
(*     step, for concurrent launches (SpecEnv),                            *)
(*   - one controller's life: construction, the spawned process, the       *)
(*     results tailer thread, the stream readers and a caller issuing      *)
(*     kill() (Spec).                                                      *)
(* Every read or write of a field shared between threads is one step.      *)
(*                                                                         *)
(* The base class AsyncProcess comes from the host's Default.exec and is   *)
(* not part of the sources: SuperKill, SuperKillListener, Poll and         *)
(* read_stdout, read_stderr model its kill(), poll() and stream readers.   *)
(***************************************************************************)
EXTENDS Integers, Sequences, FiniteSets, TLC

(***************************************************************************)
(* Bounds of the model                                                     *)
(***************************************************************************)
\* bytes the process may write to the results file
MaxBytes == 2
\* kill() calls the caller may issue on the controller
MaxKills == 2
\* launches each launcher thread may perform in SpecEnv
MaxLaunches == 1

\* failed attempts after which delete_results_file gives up: the code's loop
\* (`while counter <= 5`, `counter += 0.1`) gives up after its 51st failed
\* os.remove; the model scales that number down
MaxRetries == 2

Launchers == {"A", "B"}
\* the launcher whose controller Spec follows
Self == "A"

(***************************************************************************)
(* Environments.  A mapping is a function on Keys; Unset marks a key that  *)
(* is not in the mapping.  A value is a sequence of tokens; the token      *)
(* Ref(k) is a reference "$k" that os.path.expandvars expands.             *)
(***************************************************************************)
Keys == {"PATH", "HOME", "X"}
Unset == <<"<unset>">>
Ref(k) == CASE k = "PATH" -> "$PATH" [] k = "HOME" -> "$HOME" [] OTHER -> "$X"
EmptyMap == [k \in Keys |-> Unset]
\* the process-wide environment before any launch
BaseEnv == [k \in Keys |-> CASE k = "PATH" -> <<"/bin">>
                             [] k = "HOME" -> <<"/home">>
                             [] OTHER -> Unset]
\* the `env` overlays a launch may be given; launcher l's values carry its tag
Tag(l) == IF l = "A" THEN "/oA" ELSE "/oB"
Overlays(l) == { EmptyMap,
                 [EmptyMap EXCEPT !["X"] = <<"$HOME", Tag(l)>>],
                 [EmptyMap EXCEPT !["PATH"] = <<Tag(l)>>] }
\* the `path` option: "" (not given) or a PATH string
NoPath == <<>>
Paths == { NoPath, <<"$PATH", "/p">> }

\* dict.update(o): the keys of o override
MapUpdate(m, o) == [k \in Keys |-> IF o[k] # Unset THEN o[k] ELSE m[k]]

\* os.path.expandvars(v) against the mapping e: a reference to a key of e is
\* replaced by e's value (not expanded again), any other token is kept
RECURSIVE expandvars(_, _)
expandvars(v, e) ==
    IF v = <<>> THEN <<>>
    ELSE LET t == Head(v)
             hit == {k \in Keys : Ref(k) = t /\ e[k] # Unset}
         IN (IF hit # {} THEN e[CHOOSE k \in hit : TRUE] ELSE <<t>>)
            \o expandvars(Tail(v), e)

VARIABLES
    \* ---- process-wide environment
    os_environ,      \* the mapping os.environ is bound to
    environ_is_os,   \* TRUE while os.environ is still the os._Environ object
    c_environ,       \* the real process environment (putenv)
    \* ---- per launch, locals of __init__ / updated_environ
    epc,             \* position in lines 67-72
    env_in,          \* the env argument
    path_in,         \* the path argument
    old_env,         \* updated_environ's old_env
    proc_env,        \* __init__'s proc_env
    launches         \* launches begun by each launcher

envvars == <<os_environ, environ_is_os, c_environ, epc, env_in, path_in,
             old_env, proc_env, launches>>

(***************************************************************************)
(* Command values.  A Python value is a record: kind "none" is None, a     *)
(* "str" holds its words in val[1], a "list" holds one word sequence per   *)
(* argument, "other" is a true value that is neither.  Token is the        *)
(* placeholder '<result_file>'.                                            *)
(***************************************************************************)
Token == "<result_file>"
NoneV == [kind |-> "none", val |-> <<>>]
Str(s) == [kind |-> "str", val |-> <<s>>]
List(a) == [kind |-> "list", val |-> a]
Other == [kind |-> "other", val |-> <<>>]
\* Python truth of a value
Truthy(v) == CASE v.kind = "none" -> FALSE
               [] v.kind = "str" -> v.val[1] # <<>>
               [] v.kind = "list" -> v.val # <<>>
               [] OTHER -> TRUE

\* the cmd and shell_cmd arguments a launch may be given
CmdInputs == { NoneV,
               List(<< <<"tool">>, <<"--out=", Token>> >>),
               Str(<<"tool", Token>>) }
ShellCmdInputs == { NoneV, Str(<<>>), Str(<<"tool">>),
                    Str(<<"tool", Token, "&&", "cat", Token>>), Other }

\* results_file_path values: None, a path the caller supplied, the temp file
NonePath == "<None>"
SuppliedPath == "/given/results.txt"
TempPath == "/tmp/tmpfile.txt"
PathInputs == {NonePath, SuppliedPath}
\* Python truth of a path
PathSet(p) == p \notin {NonePath, ""}

Platforms == {"win32", "darwin", "linux"}

\* `'<result_file>' in s` and `s.replace('<result_file>', p)` on a string
HasToken(s) == \E i \in 1..Len(s) : s[i] = Token
\* a replace that stops after the first occurrence (count=1)
Replace_FirstOnly(s, p) ==
    [i \in 1..Len(s) |->
        IF s[i] = Token /\ \A j \in 1..(i - 1) : s[j] # Token THEN p ELSE s[i]]
Replace(s, p) == [i \in 1..Len(s) |-> IF s[i] = Token THEN p ELSE s[i]]

Threads == {"tailer", "stdout", "stderr", "kill"}

VARIABLES
    \* ---- the controller under construction (locals and arguments of __init__)
    cpc,             \* position of the constructing thread
    cmd, shell_cmd,  \* the arguments, as rebound by lines 78 and 118
    wait,            \* the wait argument (TRUE: a timeout was given)
    popen,           \* what line 85/92/100/121 handed to subprocess.Popen
    given,           \* cmd, shell_cmd and results_file_path as the caller gave them
    \* ---- fields of the controller
    listener,        \* self.listener is not None
    killed,          \* self.killed
    _delete_results_file,
    results_file_path,
    \* ---- the outside world
    proc,            \* the spawned process: "none", "running", "exited"
    proc_file,       \* the results file the process was told to write
    disk,            \* the files that exist
    fileLen,         \* bytes in the results file
    \* ---- threads: tailer, stdout reader, the caller of kill()
    tp,              \* position of each thread
    tOff, tData,     \* tailer: file offset of f, the chunk just read
    counter,         \* delete_results_file's counter: failed attempts so far
    \* ---- history
    forwarded,       \* bytes handed to listener.on_data by the tailer
    fwdAfterKill,    \* an on_data call began after a kill() had returned
    finished,        \* on_finished calls delivered
    kills,           \* kill() calls begun
    killReturned,    \* some kill() call has returned normally
    prevReturned,    \* the kill() call before the current one returned normally
    snap,            \* the controller's fields when a kill() first returned
    removed,         \* paths an os.remove call has deleted
    warned,          \* the "Failed to delete" warning was logged
    tCleanup         \* the tailer has entered delete_results_file

ctlvars == <<cpc, cmd, shell_cmd, wait, popen, given>>
fieldvars == <<listener, killed, _delete_results_file, results_file_path>>
worldvars == <<proc, proc_file, disk, fileLen>>
threadvars == <<tp, tOff, tData, counter>>
histvars == <<forwarded, fwdAfterKill, finished, kills, killReturned,
              prevReturned, snap, removed, warned, tCleanup>>
lifevars == <<ctlvars, fieldvars, worldvars, threadvars, histvars>>

vars == <<envvars, lifevars>>

\* no Popen call was made (yet)
NoPopen == [called |-> FALSE, args |-> <<>>, shell |-> FALSE, pipes |-> FALSE,
            env |-> EmptyMap]

\* no arguments (before the call, and once __init__ is done with them)
NoGiven == [cmd |-> NoneV, shell_cmd |-> NoneV, path |-> NonePath]

\* the fields of the controller, as one value
Fields == [killed |-> killed, listener |-> listener,
           path |-> results_file_path, flag |-> _delete_results_file]

InitEnvState ==
    /\ os_environ = BaseEnv
    /\ environ_is_os = TRUE
    /\ c_environ = BaseEnv
    /\ epc = [l \in Launchers |-> "idle"]
    /\ env_in = [l \in Launchers |-> EmptyMap]
    /\ path_in = [l \in Launchers |-> NoPath]
    /\ old_env = [l \in Launchers |-> EmptyMap]
    /\ proc_env = [l \in Launchers |-> EmptyMap]
    /\ launches = [l \in Launchers |-> 0]

\* a launch reaches line 67 with its env and path arguments
EnvEnter(l, e, p) ==
    /\ epc' = [epc EXCEPT ![l] = "save"]
    /\ env_in' = [env_in EXCEPT ![l] = e]
    /\ path_in' = [path_in EXCEPT ![l] = p]
    /\ launches' = [launches EXCEPT ![l] = @ + 1]
    /\ UNCHANGED <<os_environ, environ_is_os, c_environ, old_env, proc_env>>

\* line 24: old_env = os.environ.copy()
EnvSave(l) ==
    /\ epc[l] = "save"
    /\ old_env' = [old_env EXCEPT ![l] = os_environ]
    /\ epc' = [epc EXCEPT ![l] = "update"]
    /\ UNCHANGED <<os_environ, environ_is_os, c_environ, env_in, path_in,
                   proc_env, launches>>
    /\ UNCHANGED lifevars

\* line 25: os.environ.update(env); os._Environ.__setitem__ also calls putenv,
\* a plain dict (os.environ after some launch's line 29) does not
EnvUpdate(l) ==
    /\ epc[l] = "update"
    /\ os_environ' = MapUpdate(os_environ, env_in[l])
    /\ c_environ' = IF environ_is_os THEN MapUpdate(c_environ, env_in[l])
                    ELSE c_environ
    /\ epc' = [epc EXCEPT ![l] = "copy"]
    /\ UNCHANGED <<environ_is_os, env_in, path_in, old_env, proc_env, launches>>
    /\ UNCHANGED lifevars

\* the overlay merged once more after the path option, so that it wins on PATH
EnvCopy_OverlayLast(l) ==
    /\ epc[l] = "copy"
    /\ proc_env' = [proc_env EXCEPT ![l] =
                      IF path_in[l] # NoPath
                      THEN MapUpdate([os_environ EXCEPT !["PATH"] = path_in[l]],
                                     env_in[l])
                      ELSE os_environ]
    /\ epc' = [epc EXCEPT ![l] = "expand"]
    /\ UNCHANGED <<os_environ, environ_is_os, c_environ, env_in, path_in,
                   old_env, launches>>
    /\ UNCHANGED lifevars

\* lines 68-70: proc_env = os.environ.copy(); if path: proc_env['PATH'] = path
EnvCopy(l) ==
    /\ epc[l] = "copy"
    /\ proc_env' = [proc_env EXCEPT ![l] =
                      IF path_in[l] # NoPath
                      THEN [os_environ EXCEPT !["PATH"] = path_in[l]]
                      ELSE os_environ]
    /\ epc' = [epc EXCEPT ![l] = "expand"]
    /\ UNCHANGED <<os_environ, environ_is_os, c_environ, env_in, path_in,
                   old_env, launches>>
    /\ UNCHANGED lifevars

\* lines 71-72: every value of proc_env is expanded against os.environ
EnvExpand(l) ==
    /\ epc[l] = "expand"
    /\ proc_env' = [proc_env EXCEPT ![l] =
                      [k \in Keys |-> IF proc_env[l][k] = Unset THEN Unset
                                      ELSE expandvars(proc_env[l][k], os_environ)]]
    /\ epc' = [epc EXCEPT ![l] = "restore"]
    /\ UNCHANGED <<os_environ, environ_is_os, c_environ, env_in, path_in,
                   old_env, launches>>
    /\ UNCHANGED lifevars

\* line 29: os.environ = old_env; the name is rebound to a plain dict and
\* nothing is taken back out of the real environment
EnvRestore(l) ==
    /\ epc[l] = "restore"
    /\ os_environ' = old_env[l]
    /\ environ_is_os' = FALSE
    /\ epc' = [epc EXCEPT ![l] = "done"]
    /\ UNCHANGED <<c_environ, env_in, path_in, old_env, proc_env, launches>>
    /\ UNCHANGED lifevars

EnvStep(l) ==
    \/ EnvSave(l)
    \/ EnvUpdate(l)
    \/ EnvCopy(l)
    \/ EnvExpand(l)
    \/ EnvRestore(l)

(***************************************************************************)
(* Construction: EnhancedAsyncProcess.__init__                             *)
(***************************************************************************)
\* a check that also refuses a request with both cmd and shell_cmd
Invalid_BothRefused(c, s) ==
    \/ ~Truthy(s) /\ ~Truthy(c)
    \/ Truthy(s) /\ Truthy(c)
    \/ Truthy(s) /\ s.kind # "str"

\* lines 48-52: the two checks that raise ValueError
Invalid(c, s) ==
    \/ ~Truthy(s) /\ ~Truthy(c)
    \/ Truthy(s) /\ s.kind # "str"

\* lines 37-59: the arguments are checked and the fields initialised
Validate ==
    /\ cpc = "new"
    /\ \E c \in CmdInputs, s \in ShellCmdInputs, r \in PathInputs,
          w \in BOOLEAN, e \in Overlays(Self), p \in Paths :
         /\ cmd' = c /\ shell_cmd' = s
         /\ given' = [cmd |-> c, shell_cmd |-> s, path |-> r]
         /\ IF Invalid(c, s)
            THEN /\ cpc' = "rejected"
                 /\ UNCHANGED <<wait, fieldvars, envvars>>
            ELSE /\ cpc' = "env"
                 /\ wait' = w
                 /\ listener' = TRUE
                 /\ killed' = FALSE
                 /\ _delete_results_file' = FALSE
                 /\ results_file_path' = r
                 /\ EnvEnter(Self, e, p)
    /\ UNCHANGED <<popen, worldvars, threadvars, histvars>>

\* lines 67-72, one step at a time
Compose ==
    /\ cpc = "env"
    /\ EnvStep(Self)

\* create_results_file without line 171: the file is not marked
create_results_file_Unmarked ==
    /\ results_file_path' = TempPath
    /\ disk' = disk \cup {TempPath}
    /\ _delete_results_file' = _delete_results_file

\* lines 161-171: a temp file is created (delete=False keeps it on disk) and
\* marked as this process's to delete
create_results_file ==
    /\ results_file_path' = TempPath
    /\ disk' = disk \cup {TempPath}
    /\ _delete_results_file' = TRUE

\* `if not self.results_file_path: self.create_results_file()`
EnsureResultsFile ==
    IF ~PathSet(results_file_path)
    THEN create_results_file
    ELSE UNCHANGED <<results_file_path, disk, _delete_results_file>>

\* lines 74-80 and 104-118: the placeholder is looked for and replaced
Resolve ==
    /\ cpc = "env" /\ epc[Self] = "done"
    /\ IF Truthy(shell_cmd)
       THEN \* lines 75-79
            /\ IF HasToken(shell_cmd.val[1])
               THEN /\ EnsureResultsFile
                    /\ shell_cmd' = Str(Replace(shell_cmd.val[1], results_file_path'))
               ELSE UNCHANGED <<results_file_path, disk, _delete_results_file,
                                shell_cmd>>
            /\ cmd' = cmd
            /\ cpc' = "popen"
       ELSE IF cmd.kind = "str"
       THEN \* line 106 tests shell_cmd, which is None (TypeError) or ''
            /\ cpc' = IF shell_cmd.kind = "none" THEN "type_error" ELSE "popen"
            /\ UNCHANGED <<results_file_path, disk, _delete_results_file,
                           shell_cmd, cmd>>
       ELSE \* lines 111-118: a.replace(...) returns a new string that is
            \* dropped; updated_cmd holds the arguments as given
            /\ IF \E i \in 1..Len(cmd.val) : HasToken(cmd.val[i])
               THEN EnsureResultsFile
               ELSE UNCHANGED <<results_file_path, disk, _delete_results_file>>
            /\ cmd' = List([i \in 1..Len(cmd.val) |-> cmd.val[i]])
            /\ shell_cmd' = shell_cmd
            /\ cpc' = "popen"
    /\ UNCHANGED <<wait, popen, given, listener, killed, proc, proc_file,
                   fileLen, threadvars, histvars, envvars>>

\* the argument list of the shell invocation, lines 85-103
ShellArgs(plat, s) ==
    CASE plat = "win32" -> <<s>>
      [] plat = "darwin" -> << <<"/bin/bash">>, <<"-l">>, <<"-c">>, s >>
      [] OTHER -> << <<"/bin/bash">>, <<"-c">>, s >>

\* the file the spawned command names, if it names one
NamedFile(args) ==
    IF \E i \in 1..Len(args) : \E j \in 1..Len(args[i]) :
          args[i][j] \in {SuppliedPath, TempPath}
    THEN CHOOSE f \in {SuppliedPath, TempPath} :
           \E i \in 1..Len(args) : \E j \in 1..Len(args[i]) : args[i][j] = f
    ELSE NonePath

\* lines 82-103 and 121: subprocess.Popen, which may raise OSError
Popen ==
    /\ cpc = "popen"
    /\ \E plat \in Platforms, sh \in BOOLEAN, ok \in BOOLEAN :
         LET call == IF Truthy(shell_cmd)
                     THEN [called |-> TRUE,
                           args |-> ShellArgs(plat, shell_cmd.val[1]),
                           shell |-> (plat = "win32"), pipes |-> TRUE,
                           env |-> proc_env[Self]]
                     ELSE [called |-> TRUE, args |-> cmd.val, shell |-> sh,
                           pipes |-> FALSE, env |-> proc_env[Self]]
         IN /\ popen' = call
            /\ IF ok
               THEN /\ proc' = "running"
                    /\ proc_file' = NamedFile(call.args)
                    /\ cpc' = "threads"
               ELSE /\ cpc' = "spawn_error"
                    /\ UNCHANGED <<proc, proc_file>>
    /\ UNCHANGED <<cmd, shell_cmd, wait, given, fieldvars, disk, fileLen,
                   threadvars, histvars, envvars>>

\* a tailer only for a command that names the results file
StartsTailer_NamedOnly == NamedFile(popen.args) # NonePath
\* line 129: `if self.results_file_path:`
StartsTailer == PathSet(results_file_path)

\* lines 123 and 126: `if self.proc.stdout:`, `if self.proc.stderr:`
StartsReader == popen.pipes

\* lines 123-130: the worker threads are started; the arguments and locals
\* of __init__ are not used after this
StartThreads ==
    /\ cpc = "threads"
    /\ tp' = [tp EXCEPT !["stdout"] = IF StartsReader THEN "read" ELSE "off",
                        !["stderr"] = IF StartsReader THEN "read" ELSE "off",
                        !["tailer"] = IF StartsTailer THEN "open" ELSE "off"]
    /\ cpc' = IF wait THEN "wait" ELSE "started"
    /\ cmd' = NoneV /\ shell_cmd' = NoneV /\ popen' = NoPopen
    /\ given' = NoGiven
    /\ epc' = [epc EXCEPT ![Self] = "idle"]
    /\ env_in' = [env_in EXCEPT ![Self] = EmptyMap]
    /\ path_in' = [path_in EXCEPT ![Self] = NoPath]
    /\ old_env' = [old_env EXCEPT ![Self] = EmptyMap]
    /\ proc_env' = [proc_env EXCEPT ![Self] = EmptyMap]
    /\ UNCHANGED <<wait, fieldvars, worldvars, tOff, tData, counter, histvars,
                   os_environ, environ_is_os, c_environ, launches>>

\* lines 132-133: self.proc.wait(timeout=wait) returns when the process has
\* exited, or raises TimeoutExpired out of __init__ while it still runs
Wait ==
    /\ cpc = "wait"
    /\ cpc' = IF proc = "exited" THEN "started" ELSE "timeout"
    /\ wait' = FALSE
    /\ UNCHANGED <<cmd, shell_cmd, popen, given, fieldvars, worldvars,
                   threadvars, histvars, envvars>>

(***************************************************************************)
(* The spawned process                                                     *)
(***************************************************************************)
\* the process appends a byte to the results file it was told of
ProcWrite ==
    /\ proc = "running"
    /\ proc_file \in disk
    /\ fileLen < MaxBytes
    /\ fileLen' = fileLen + 1
    /\ UNCHANGED <<ctlvars, fieldvars, proc, proc_file, disk, threadvars,
                   histvars, envvars>>

\* the process exits, of itself or after kill()'s terminate
ProcExit ==
    /\ proc = "running"
    /\ proc' = "exited"
    /\ UNCHANGED <<ctlvars, fieldvars, proc_file, disk, fileLen, threadvars,
                   histvars, envvars>>

\* AsyncProcess.poll(): the process has not exited
Poll == proc = "running"

(***************************************************************************)
(* delete_results_file, lines 173-198, run by thread t (the tailer at      *)
(* line 155, the caller of kill() at line 159)                             *)
(***************************************************************************)
Goto(t, where) == tp' = [tp EXCEPT ![t] = where]

\* where thread t is once delete_results_file has returned
AfterDelete(t) == IF t = "tailer" THEN "closed" ELSE "returned"

\* a condition a careless cleanup would test instead: there is a path
ShouldDelete_AnyPath == PathSet(results_file_path)

\* line 181: the file is deleted only if this process created it
ShouldDelete == _delete_results_file

\* lines 181-184: `if self._delete_results_file:` and counter = 0
DelCheck(t) ==
    /\ tp[t] = "del_check"
    /\ IF ShouldDelete
       THEN /\ Goto(t, "del_remove")
            /\ counter' = [counter EXCEPT ![t] = 0]
       ELSE /\ Goto(t, "del_clear_path")
            /\ UNCHANGED counter
    /\ tCleanup' = (tCleanup \/ t = "tailer")
    /\ UNCHANGED <<ctlvars, fieldvars, worldvars, tOff, tData, forwarded,
                   fwdAfterKill, finished, kills, killReturned, prevReturned,
                   snap, removed, warned, envvars>>

\* a loop that never gives up (`while True:`)
GivesUp_Never(c) == FALSE
\* line 185, `while counter <= 5`: the loop ends after the failed attempt
\* that takes the count c to the limit
GivesUp(c) == c + 1 >= MaxRetries

\* lines 184-196: one turn of the loop.  os.remove(self.results_file_path)
\* raises TypeError on None and FileNotFoundError on a missing file, neither
\* of which is caught; on a file that exists it deletes it, or raises
\* PermissionError while a handle is still open on it
DelRemove(t) ==
    /\ tp[t] = "del_remove"
    /\ IF results_file_path = NonePath
       THEN /\ Goto(t, "err_remove_none")
            /\ UNCHANGED <<disk, removed, counter, warned>>
       ELSE IF results_file_path \notin disk
       THEN /\ Goto(t, "err_remove_missing")
            /\ UNCHANGED <<disk, removed, counter, warned>>
       ELSE \/ /\ disk' = disk \ {results_file_path}
               /\ removed' = removed \cup {results_file_path}
               /\ Goto(t, "del_clear_path")
               /\ UNCHANGED <<counter, warned>>
            \/ /\ IF GivesUp(counter[t])
                  THEN /\ warned' = TRUE
                       /\ counter' = [counter EXCEPT ![t] = 0]
                       /\ Goto(t, "del_clear_path")
                  ELSE /\ counter' = [counter EXCEPT ![t] = @ + 1]
                       /\ UNCHANGED <<warned, tp>>
               /\ UNCHANGED <<disk, removed>>
    /\ UNCHANGED <<ctlvars, fieldvars, proc, proc_file, fileLen, tOff, tData,
                   forwarded, fwdAfterKill, finished, kills, killReturned,
                   prevReturned, snap, tCleanup, envvars>>

\* line 197: self.results_file_path = None
DelClearPath(t) ==
    /\ tp[t] = "del_clear_path"
    /\ results_file_path' = NonePath
    /\ Goto(t, "del_clear_flag")
    /\ UNCHANGED <<ctlvars, listener, killed, _delete_results_file, worldvars,
                   tOff, tData, counter, histvars, envvars>>

\* a cleanup that forgets line 198 leaves the flag as it is
FlagAfterCleanup_Kept == _delete_results_file

\* the value line 198 stores in self._delete_results_file
FlagAfterCleanup == FALSE

\* line 198: self._delete_results_file = False; the method returns
DelClearFlag(t) ==
    /\ tp[t] = "del_clear_flag"
    /\ _delete_results_file' = FlagAfterCleanup
    /\ Goto(t, AfterDelete(t))
    /\ IF t = "kill"
       THEN /\ killReturned' = TRUE
            /\ snap' = IF killReturned THEN snap
                       ELSE [Fields EXCEPT !.flag = _delete_results_file']
       ELSE UNCHANGED <<killReturned, snap>>
    /\ UNCHANGED <<ctlvars, listener, killed, results_file_path, worldvars,
                   tOff, tData, counter, forwarded, fwdAfterKill, finished,
                   kills, prevReturned, removed, warned, tCleanup, envvars>>

delete_results_file(t) ==
    \/ DelCheck(t)
    \/ DelRemove(t)
    \/ DelClearPath(t)
    \/ DelClearFlag(t)

(***************************************************************************)
(* The results tailer: read_results_from_file, lines 135-155               *)
(***************************************************************************)
TailerOnly(where) ==
    /\ Goto("tailer", where)
    /\ UNCHANGED <<ctlvars, fieldvars, worldvars, tOff, tData, counter,
                   histvars, envvars>>

\* line 142: open(self.results_file_path, 'rb'); TypeError on None,
\* FileNotFoundError on a missing file
TailerOpen ==
    /\ tp["tailer"] = "open"
    /\ TailerOnly(IF results_file_path = NonePath THEN "err_open_none"
                  ELSE IF results_file_path \notin disk THEN "err_open_missing"
                  ELSE "read")

\* lines 144-146: data = f.read() takes all bytes past f's offset
TailerRead ==
    /\ tp["tailer"] = "read"
    /\ tData' = fileLen - tOff
    /\ tOff' = fileLen
    /\ Goto("tailer", IF fileLen - tOff > 0 THEN "check_listener" ELSE "check_killed")
    /\ UNCHANGED <<ctlvars, fieldvars, worldvars, counter, histvars, envvars>>

\* line 147: `if self.listener:`
TailerCheckListener ==
    /\ tp["tailer"] = "check_listener"
    /\ TailerOnly(IF listener THEN "load_on_data" ELSE "sleep")

\* line 148: self.listener.on_data is looked up; AttributeError on None
TailerLoadOnData ==
    /\ tp["tailer"] = "load_on_data"
    /\ TailerOnly(IF listener THEN "call_on_data" ELSE "err_listener_none")

\* line 148: the call on_data(self, data) is made
TailerCallOnData ==
    /\ tp["tailer"] = "call_on_data"
    /\ forwarded' = forwarded + tData
    /\ fwdAfterKill' = (fwdAfterKill \/ killReturned)
    /\ Goto("tailer", "sleep")
    /\ UNCHANGED <<ctlvars, fieldvars, worldvars, tOff, tData, counter,
                   finished, kills, killReturned, prevReturned, snap, removed,
                   warned, tCleanup, envvars>>

\* line 150, first operand: `self.killed`
TailerCheckKilled ==
    /\ tp["tailer"] = "check_killed"
    /\ TailerOnly(IF killed THEN "del_check" ELSE "poll")

\* line 150, second operand: `not self.poll()`; the break closes f (line 142)
\* and line 155 calls delete_results_file
TailerPoll ==
    /\ tp["tailer"] = "poll"
    /\ TailerOnly(IF ~Poll THEN "del_check" ELSE "sleep")

\* line 152: time.sleep(0.01), then the next turn of the loop
TailerSleep ==
    /\ tp["tailer"] = "sleep"
    /\ TailerOnly("read")

read_results_from_file ==
    \/ TailerOpen
    \/ TailerRead
    \/ TailerCheckListener
    \/ TailerLoadOnData
    \/ TailerCallOnData
    \/ TailerCheckKilled
    \/ TailerPoll
    \/ TailerSleep
    \/ delete_results_file("tailer")

(***************************************************************************)
(* The stdout reader of the base class: at end of stream it closes the     *)
(* pipe and tells the listener the process has finished                    *)
(***************************************************************************)
StdoutOnly(where) ==
    /\ Goto("stdout", where)
    /\ UNCHANGED <<ctlvars, fieldvars, worldvars, tOff, tData, counter,
                   histvars, envvars>>

read_stdout ==
    \/ /\ tp["stdout"] = "read" /\ proc = "exited"
       /\ StdoutOnly("eof_check")
    \/ /\ tp["stdout"] = "eof_check"
       /\ StdoutOnly(IF listener THEN "eof_load" ELSE "done")
    \/ /\ tp["stdout"] = "eof_load"
       /\ StdoutOnly(IF listener THEN "eof_call" ELSE "err_listener_none")
    \/ /\ tp["stdout"] = "eof_call"
       /\ finished' = finished + 1
       /\ Goto("stdout", "done")
       /\ UNCHANGED <<ctlvars, fieldvars, worldvars, tOff, tData, counter,
                      forwarded, fwdAfterKill, kills, killReturned,
                      prevReturned, snap, removed, warned, tCleanup, envvars>>

\* the stderr reader of the base class: at end of stream it closes the pipe
read_stderr ==
    /\ tp["stderr"] = "read" /\ proc = "exited"
    /\ Goto("stderr", "done")
    /\ UNCHANGED <<ctlvars, fieldvars, worldvars, tOff, tData, counter,
                   histvars, envvars>>

(***************************************************************************)
(* kill(), lines 157-159, called on a constructed controller               *)
(***************************************************************************)
\* the Runner (or any holder of the controller) calls kill()
KillCall ==
    /\ cpc = "started"
    /\ tp["kill"] \notin {"super", "super_listener", "del_check", "del_remove",
                          "del_clear_path", "del_clear_flag"}
    /\ kills < MaxKills
    /\ kills' = kills + 1
    /\ prevReturned' = (tp["kill"] = "returned")
    /\ Goto("kill", "super")
    /\ UNCHANGED <<ctlvars, fieldvars, worldvars, tOff, tData, counter,
                   forwarded, fwdAfterKill, finished, killReturned, snap,
                   removed, warned, tCleanup, envvars>>

\* line 158, AsyncProcess.kill(): the first call sets the killed flag and asks
\* the OS to terminate the process; later calls do nothing
SuperKill ==
    /\ tp["kill"] = "super"
    /\ IF ~killed
       THEN killed' = TRUE /\ Goto("kill", "super_listener")
       ELSE killed' = killed /\ Goto("kill", "del_check")
    /\ UNCHANGED <<ctlvars, listener, _delete_results_file, results_file_path,
                   worldvars, tOff, tData, counter, histvars, envvars>>

\* line 158, AsyncProcess.kill(): the listener is dropped, so that the
\* readers wind down
SuperKillListener ==
    /\ tp["kill"] = "super_listener"
    /\ listener' = FALSE
    /\ Goto("kill", "del_check")
    /\ UNCHANGED <<ctlvars, killed, _delete_results_file, results_file_path,
                   worldvars, tOff, tData, counter, histvars, envvars>>

kill ==
    \/ KillCall
    \/ SuperKill
    \/ SuperKillListener
    \/ delete_results_file("kill")

(***************************************************************************)
(* Spec: one controller from construction to cleanup                       *)
(***************************************************************************)
InitLife ==
    /\ cpc = "new"
    /\ cmd = NoneV /\ shell_cmd = NoneV /\ wait = FALSE
    /\ popen = NoPopen /\ given = NoGiven
    /\ listener = FALSE /\ killed = FALSE
    /\ _delete_results_file = FALSE
    /\ results_file_path = NonePath
    /\ proc = "none" /\ proc_file = NonePath
    /\ disk = {SuppliedPath}
    /\ fileLen = 0
    /\ tp = [t \in Threads |-> "off"]
    /\ tOff = 0 /\ tData = 0
    /\ counter = [t \in Threads |-> 0]
    /\ forwarded = 0 /\ fwdAfterKill = FALSE /\ finished = 0
    /\ kills = 0 /\ killReturned = FALSE /\ prevReturned = FALSE
    /\ snap = Fields
    /\ removed = {} /\ warned = FALSE /\ tCleanup = FALSE

Init == InitEnvState /\ InitLife

Next ==
    \/ Validate
    \/ Compose
    \/ Resolve
    \/ Popen
    \/ StartThreads
    \/ Wait
    \/ ProcWrite
    \/ ProcExit
    \/ read_results_from_file
    \/ read_stdout
    \/ read_stderr
    \/ kill

Spec == Init /\ [][Next]_vars

(***************************************************************************)
(* SpecEnv: launches composing their environments concurrently             *)
(***************************************************************************)
\* a launcher thread calls EnhancedAsyncProcess(...) with some env and path
EnvLaunch(l) ==
    /\ epc[l] \in {"idle", "done"}
    /\ launches[l] < MaxLaunches
    /\ \E e \in Overlays(l), p \in Paths : EnvEnter(l, e, p)
    /\ UNCHANGED lifevars

InitEnv == InitEnvState /\ InitLife

NextEnv ==
    \E l \in Launchers :
        \/ EnvLaunch(l)
        \/ EnvSave(l)
        \/ EnvUpdate(l)
        \/ EnvCopy(l)
        \/ EnvExpand(l)
        \/ EnvRestore(l)

SpecEnv == InitEnv /\ [][NextEnv]_vars

(***************************************************************************)
(* Properties                                                              *)
(***************************************************************************)
\* a thread that died of an uncaught exception
ErrStates == {"err_open_none", "err_open_missing", "err_remove_none",
              "err_remove_missing", "err_listener_none"}

\* C1: when the process was never killed and the tailer has finished, every
\* byte the process wrote to the results file has been forwarded to the
\* listener
C1_AllBytesForwarded ==
    (tp["tailer"] = "closed" /\ kills = 0) => forwarded = fileLen

\* C2: once kill() has been called, neither the caller of kill() nor the
\* tailer thread ends in an error; in particular os.remove is never called
\* on a cleared path or on a file that is already gone
C2_KillSafe ==
    kills > 0 => (tp["kill"] \notin ErrStates /\ tp["tailer"] \notin ErrStates)

\* C3: no on_data call is made by the tailer after a kill() has returned
C3_NoDataAfterKill == ~fwdAfterKill

\* no value of launcher l's composed environment holds a token of the
\* other launcher's overlay
NoForeign(l) ==
    \A o \in Launchers \ {l} : \A k \in Keys :
        \A i \in 1..Len(proc_env[l][k]) : proc_env[l][k][i] # Tag(o)

\* C4: in every state the process-wide environment os.environ is what it
\* was before the launches, and no launch's composed environment holds an
\* entry of another launch's overlay
C4_EnvUntouched ==
    /\ os_environ = BaseEnv
    /\ \A l \in Launchers : NoForeign(l)

\* C5: when no launch is composing its environment, the process-wide
\* environment (os.environ and the real environment behind it) is what it
\* was before the first launch
C5_NoLingering ==
    (\A l \in Launchers : epc[l] \in {"idle", "done"})
        => (os_environ = BaseEnv /\ c_environ = BaseEnv)

\* C6: the file at the path the caller supplied is never deleted, whatever
\* start, exit, kill() and cleanup do
C6_SuppliedKept == SuppliedPath \in disk /\ SuppliedPath \notin removed

C6_Witness ==
    /\ proc_file = SuppliedPath
    /\ proc = "exited"
    /\ tp["tailer"] = "closed"
    /\ tp["kill"] = "returned"
    /\ SuppliedPath \in disk

\* C7: when the process was never killed, the tailer has reached Closed and
\* the delete did not fail through all its retries, the temp file is gone
C7_TempDeleted ==
    (tp["tailer"] = "closed" /\ kills = 0 /\ ~warned) => TempPath \notin disk

C7_Witness ==
    /\ tp["tailer"] = "closed" /\ kills = 0 /\ ~warned
    /\ proc_file = TempPath
    /\ TempPath \in removed
    /\ counter["tailer"] = 0 /\ forwarded = MaxBytes

\* C8: a tailer thread that has stopped has gone through Cleanup: it never
\* leaves Polling any other way once the process has exited or been killed
C8_TailerEntersCleanup ==
    tp["tailer"] \in ErrStates \cup {"closed"} => tCleanup

\* C9: after a kill() that returned, the fields of the controller stay what
\* they were at that return, a further kill() neither raises nor attempts a
\* delete, and on_finished is delivered at most once
C9_KillIdempotent ==
    killReturned =>
        /\ Fields = snap
        /\ prevReturned => tp["kill"] \notin ErrStates \cup {"del_remove"}
        /\ finished <= 1

C9_Witness ==
    /\ kills = 2 /\ prevReturned /\ tp["kill"] = "returned"
    /\ TempPath \in removed

\* the states in which cmd and shell_cmd still hold what the caller gave
Constructing == {"rejected", "env", "popen", "type_error", "spawn_error",
                 "threads"}

\* C10 as stated: a request is accepted exactly when one of cmd and
\* shell_cmd is set, and nothing is spawned for a rejected request
C10_ExactlyOneAccepted ==
    cpc \in Constructing =>
        /\ cpc # "rejected" <=> (Truthy(cmd) # Truthy(shell_cmd))
        /\ cpc = "rejected" => proc = "none"

\* C10 amended: the checks at the head of the constructor raise exactly when
\* neither cmd nor shell_cmd is set or shell_cmd is set and is no string;
\* nothing is spawned for such a request; a request with both set is
\* launched through the shell, cmd being ignored
C10_AtLeastOneAccepted ==
    cpc \in Constructing =>
        /\ cpc = "rejected" <=>
              \/ ~Truthy(cmd) /\ ~Truthy(shell_cmd)
              \/ Truthy(shell_cmd) /\ shell_cmd.kind # "str"
        /\ cpc = "rejected" =>
              /\ proc = "none" /\ ~popen.called
              /\ \A t \in Threads : tp[t] = "off"
        /\ (cpc = "threads" /\ Truthy(cmd) /\ Truthy(shell_cmd)) =>
              /\ popen.pipes
              /\ popen.args[Len(popen.args)] = shell_cmd.val[1]

C10_Witness ==
    /\ cpc = "threads" /\ Truthy(cmd) /\ Truthy(shell_cmd)
    /\ proc = "running"

(***************************************************************************)
(* Launch failures and what they leave behind                              *)
(***************************************************************************)

\* EnhancedExecCommand.run, lines 344-358: an exception out of the
\* constructor is caught, its text is shown, and self.proc stays None
StartFailed == cpc \in {"rejected", "type_error", "spawn_error", "timeout"}

\* C11: whenever a start has failed with an error surfaced to its caller (the
\* runner keeps no handle), no process spawned by that start is running; this
\* includes a wait timeout that elapses before the process exits.
C11_NoProcessAfterFailedStart == StartFailed => proc # "running"

ArgvSpawned ==
    /\ popen.called /\ ~popen.pipes
    /\ given.cmd.kind = "list"

\* C13: when arguments of an argv command hold the placeholder, the argument
\* vector handed to the spawn holds the results file path in its place, the
\* same path in every such argument.
C13_ArgvSubstituted ==
    (ArgvSpawned /\ \E i \in DOMAIN given.cmd.val : HasToken(given.cmd.val[i]))
        => /\ Len(popen.args) = Len(given.cmd.val)
           /\ \A i \in DOMAIN popen.args :
                  popen.args[i] = Replace(given.cmd.val[i], results_file_path)

\* the command was spawned through the shell (lines 85-103)
ShellSpawned == popen.called /\ popen.pipes

\* the results file path a launch works with: the one supplied, else the
\* temp file of create_results_file
ChannelPath == IF PathSet(given.path) THEN given.path ELSE TempPath

\* C14: when the shell command holds the placeholder one or more times, the
\* string handed to the shell holds one and the same results file path at
\* every occurrence (the supplied path, else the new temp file's) and is
\* unchanged everywhere else.
C14_ShellSubstituted ==
    (ShellSpawned /\ HasToken(given.shell_cmd.val[1])) =>
        LET orig == given.shell_cmd.val[1]
            passed == popen.args[Len(popen.args)]
        IN /\ Len(passed) = Len(orig)
           /\ \A i \in DOMAIN orig :
                  passed[i] = IF orig[i] = Token THEN ChannelPath ELSE orig[i]
           /\ results_file_path = ChannelPath

C14_Witness ==
    /\ cpc = "threads" /\ ShellSpawned
    /\ Cardinality({i \in DOMAIN given.shell_cmd.val[1] :
                       given.shell_cmd.val[1][i] = Token}) = 2
    /\ given.path = NonePath
    /\ TempPath \in disk

\* the command a launch runs (shell_cmd overrides cmd) holds the placeholder
GivenHasToken ==
    IF Truthy(given.shell_cmd) THEN HasToken(given.shell_cmd.val[1])
    ELSE IF given.cmd.kind = "str" THEN HasToken(given.cmd.val[1])
    ELSE \E i \in DOMAIN given.cmd.val : HasToken(given.cmd.val[i])

\* the step of lines 123-130, for a command without the placeholder
StartsWithoutToken == cpc = "threads" /\ cpc' # "threads" /\ ~GivenHasToken

\* C15 (as stated): when the command holds no placeholder, the threads are
\* started without a results tailer, also when a results file path was
\* supplied.
C15_NoTokenNoTailer ==
    [][StartsWithoutToken => tp'["tailer"] = "off"]_vars

\* C15 (amended): when the command holds no placeholder it is handed to the
\* spawn as given and no temp file is created; the results tailer is started
\* exactly when a results file path was supplied, on that path, which is not
\* marked for deletion.
C15_TailerIffSupplied ==
    /\ [](  (popen.called /\ ~GivenHasToken) =>
               /\ IF ShellSpawned
                  THEN popen.args[Len(popen.args)] = given.shell_cmd.val[1]
                  ELSE popen.args = given.cmd.val
               /\ TempPath \notin disk
               /\ results_file_path = given.path
               /\ ~_delete_results_file )
    /\ [][StartsWithoutToken =>
             /\ tp'["tailer"] # "off" <=> PathSet(given.path)
             /\ results_file_path' = given.path
             /\ ~_delete_results_file']_vars

\* a tailer runs on the supplied file although the shell command that was
\* spawned names no results file
C15_Witness ==
    /\ cpc = "started"
    /\ tp["tailer"] = "open" /\ tp["stdout"] = "read"
    /\ proc_file = NonePath /\ results_file_path = SuppliedPath

(***************************************************************************)
(* The PATH of a composed environment                                      *)
(***************************************************************************)

\* launcher l has composed its environment from a path option and an overlay
\* that sets PATH
BothPathsGiven(l) ==
    /\ epc[l] \in {"restore", "done"}
    /\ path_in[l] # NoPath
    /\ env_in[l]["PATH"] # Unset

\* the values PATH can have in os.environ: the base value or an overlay's
PathValues == {BaseEnv["PATH"]} \cup {<<Tag(o)>> : o \in Launchers}

\* C16 (as stated): when both a path option and an overlay PATH are given,
\* the PATH of the composed environment is the overlay's value.
C16_OverlayPathWins ==
    \A l \in Launchers :
        BothPathsGiven(l) => proc_env[l]["PATH"] = env_in[l]["PATH"]

\* C16 (amended): when both are given, the PATH of the composed environment
\* is the path option with its references expanded against os.environ (which
\* holds the overlay when no other launch interferes): the option replaces
\* the overlay's PATH.
C16_PathOptionWins ==
    \A l \in Launchers :
        BothPathsGiven(l) =>
            /\ \E v \in PathValues :
                   proc_env[l]["PATH"] =
                       expandvars(path_in[l], [EmptyMap EXCEPT !["PATH"] = v])
            /\ (\A o \in Launchers \ {l} : launches[o] = 0) =>
                   proc_env[l]["PATH"] =
                       expandvars(path_in[l], MapUpdate(BaseEnv, env_in[l]))

C16_Witness ==
    \E l \in Launchers :
        /\ BothPathsGiven(l) /\ epc[l] = "done"
        /\ proc_env[l]["PATH"] = <<Tag(l), "/p">>

\* __init__ has spawned the process and started its threads
ThreadsStarted == cpc \in {"wait", "started", "timeout"}

\* C17: in both ways of spawning (argument vector and shell command) the
\* process has stdout and stderr pipes and one stream reader was started for
\* each of them.
C17_PipesAndReaders ==
    /\ (cpc = "threads" => popen.pipes)
    /\ (ThreadsStarted => tp["stdout"] # "off" /\ tp["stderr"] # "off")

(***************************************************************************)
(* Cleanup: delete_results_file, lines 173-198                             *)
(***************************************************************************)

\* the threads that call delete_results_file (lines 155 and 159)
Cleaners == {"tailer", "kill"}

\* positions inside delete_results_file
DelStates == {"del_check", "del_remove", "del_clear_path", "del_clear_flag"}

\* the steps delete_results_file can still take on thread t, at most
StepsLeft(t) ==
    CASE tp[t] = "del_check" -> MaxRetries + 3
      [] tp[t] = "del_remove" -> MaxRetries + 2 - counter[t]
      [] tp[t] = "del_clear_path" -> 2
      [] tp[t] = "del_clear_flag" -> 1
      [] OTHER -> 0

\* C18: delete_results_file always terminates.  A thread inside the method
\* can always take its next step (nothing blocks it), every step it takes
\* lowers the number of steps left, and the failed attempts stay below the
\* retry limit; the attempt that reaches the limit reports the warning and
\* goes on to the two assignments that end the method.
C18_CleanupTerminates ==
    /\ [](\A t \in Cleaners :
             /\ counter[t] < MaxRetries
             /\ StepsLeft(t) \in 0..(MaxRetries + 3)
             /\ tp[t] \in DelStates => ENABLED delete_results_file(t))
    /\ [][\A t \in Cleaners :
             /\ delete_results_file(t) => StepsLeft(t)' < StepsLeft(t)
             /\ (tp[t] \in {"del_clear_path", "del_clear_flag"}
                   /\ tp'[t] # tp[t]) =>
                      tp'[t] \in {"del_clear_flag", AfterDelete(t)}]_vars
    /\ [][(~warned /\ warned') =>
             \E t \in Cleaners :
                 /\ tp[t] = "del_remove" /\ counter[t] = MaxRetries - 1
                 /\ tp'[t] = "del_clear_path"]_vars

\* the tailer alone ran the cleanup, every attempt failed on the lock, and it
\* has returned with the warning, leaving the file
C18_Witness ==
    /\ warned /\ kills = 0
    /\ tp["tailer"] = "closed"
    /\ TempPath \in disk

\* where thread t is once delete_results_file is over: returned to the
\* caller, or left through an exception of os.remove
DelExits(t) == {AfterDelete(t), "err_remove_none", "err_remove_missing"}

\* C19: every exit of delete_results_file leaves the channel cleared,
\* whatever the delete did: once a thread is out of the method,
\* results_file_path is None and _delete_results_file is False.
C19_ExitClears ==
    \A t \in Cleaners :
        tp[t] \in DelExits(t) =>
            results_file_path = NonePath /\ ~_delete_results_file

\* C20: a temp results file created by a launch does not outlive a failed
\* launch: when create_results_file ran and the spawn then failed, the temp
\* file is not on disk.
C20_NoTempAfterFailedSpawn == cpc = "spawn_error" => TempPath \notin disk

=============================================================================
